---- MODULE Spec2Model ----
(***************************************************************************)
(* A model of scrap.py: the PDF crawler crawl_and_download_pdfs with its   *)
(* retrying fetcher make_request_with_retries, its URL builder             *)
(* build_absolute_url and its downloader download_pdf.                     *)
(*                                                                         *)
(* A Python str is a sequence of one-character strings, so that prefix,    *)
(* suffix, split and find are computed character by character as the code  *)
(* computes them.                                                          *)
(***************************************************************************)
EXTENDS Integers, Sequences, FiniteSets, TLC

----------------------------------------------------------------------------
(* str primitives used by scrap.py and by urllib.parse                     *)

AsciiLower == {"a", "b", "c", "d", "e", "f", "g", "h", "i", "j", "k", "l", "m",
               "n", "o", "p", "q", "r", "s", "t", "u", "v", "w", "x", "y", "z"}

AsciiUpper == {"A", "B", "C", "D", "E", "F", "G", "H", "I", "J", "K", "L", "M",
               "N", "O", "P", "Q", "R", "S", "T", "U", "V", "W", "X", "Y", "Z"}

AsciiDigits == {"0", "1", "2", "3", "4", "5", "6", "7", "8", "9"}

\* urllib.parse.scheme_chars
scheme_chars == AsciiLower \cup AsciiUpper \cup AsciiDigits \cup {"+", "-", "."}

IsAlpha(c) == c \in AsciiLower \cup AsciiUpper

LowerOf(c) ==
  CASE c = "A" -> "a" [] c = "B" -> "b" [] c = "C" -> "c" [] c = "D" -> "d"
    [] c = "E" -> "e" [] c = "F" -> "f" [] c = "G" -> "g" [] c = "H" -> "h"
    [] c = "I" -> "i" [] c = "J" -> "j" [] c = "K" -> "k" [] c = "L" -> "l"
    [] c = "M" -> "m" [] c = "N" -> "n" [] c = "O" -> "o" [] c = "P" -> "p"
    [] c = "Q" -> "q" [] c = "R" -> "r" [] c = "S" -> "s" [] c = "T" -> "t"
    [] c = "U" -> "u" [] c = "V" -> "v" [] c = "W" -> "w" [] c = "X" -> "x"
    [] c = "Y" -> "y" [] c = "Z" -> "z"
    [] OTHER -> c

\* The value a local name is assigned: The({e(x) : x \in {v}}) is e with x
\* naming the value of v, which is computed once as an assignment computes it
The(S) == CHOOSE x \in S : TRUE

\* str.lower()
Lower(s) == [i \in 1..Len(s) |-> LowerOf(s[i])]

\* s[i:] and s[:i] with 1-based positions: From(s, i) is s from position i on
From(s, i) == SubSeq(s, i, Len(s))

Upto(s, i) == SubSeq(s, 1, i)

\* c in s
Contains(s, c) == \E i \in 1..Len(s) : s[i] = c

\* str.find(c, start): the first position >= start holding c, 0 if none
Find(s, c, start) ==
  IF \E i \in start..Len(s) : s[i] = c
  THEN CHOOSE i \in start..Len(s) :
         s[i] = c /\ \A j \in start..(i - 1) : s[j] # c
  ELSE 0

\* str.rfind(c): the last position holding c, 0 if none
RFind(s, c) ==
  IF \E i \in 1..Len(s) : s[i] = c
  THEN CHOOSE i \in 1..Len(s) :
         s[i] = c /\ \A j \in (i + 1)..Len(s) : s[j] # c
  ELSE 0

\* str.startswith(p)
StartsWith(s, p) == Len(p) <= Len(s) /\ Upto(s, Len(p)) = p

\* str.endswith(p)
EndsWith(s, p) == Len(p) <= Len(s) /\ From(s, Len(s) - Len(p) + 1) = p

RECURSIVE Split(_, _)
\* str.split(c): the pieces between the occurrences of c, at least one piece
Split(s, c) ==
  The({IF i = 0 THEN <<s>>
       ELSE <<Upto(s, i - 1)>> \o The({Split(rest, c) : rest \in {From(s, i + 1)}})
       : i \in {Find(s, c, 1)}})

\* str.split(c, 1) padded to two pieces: <<before the first c, after it>>
Split1(s, c) ==
  The({IF i = 0 THEN <<s, <<>>>> ELSE <<Upto(s, i - 1), From(s, i + 1)>>
       : i \in {Find(s, c, 1)}})

RECURSIVE Join(_, _)
\* c.join(parts)
Join(parts, c) ==
  IF parts = <<>> THEN <<>>
  ELSE IF Len(parts) = 1 THEN parts[1]
  ELSE parts[1] \o <<c>> \o The({Join(rest, c) : rest \in {Tail(parts)}})

Last(seq) == seq[Len(seq)]

----------------------------------------------------------------------------
(* urllib.parse, as scrap.py imports it (line 5): urljoin, urlparse,       *)
(* urldefrag, urlunparse.  A parse that raises ValueError is a record with *)
(* raised = TRUE.                                                          *)

Str_http == <<"h","t","t","p">>

Str_https == <<"h","t","t","p","s">>

Str_ftp == <<"f","t","p">>

Str_file == <<"f","i","l","e">>

\* the schemes of urllib.parse's tables that the hrefs of this model use
uses_relative == {<<>>, Str_http, Str_https, Str_ftp, Str_file}

uses_netloc == {<<>>, Str_http, Str_https, Str_ftp, Str_file}

uses_params == {<<>>, Str_http, Str_https, Str_ftp}

\* urlsplit's scheme: <<scheme, rest>>. A prefix up to the first ":" is the
\* scheme if it starts with a letter and holds scheme characters only;
\* otherwise the default scheme is kept and nothing is cut off.
splitscheme(url, scheme) ==
  The({IF /\ i > 1
          /\ IsAlpha(url[1])
          /\ \A k \in 1..(i - 1) : url[k] \in scheme_chars
       THEN <<Lower(Upto(url, i - 1)), From(url, i + 1)>>
       ELSE <<scheme, url>>
       : i \in {Find(url, ":", 1)}})

\* _splitnetloc(url, 2): url starts with "//"; the netloc ends before the
\* first of "/", "?", "#"
splitnetloc(url) ==
  The({<<SubSeq(url, 3, delim - 1), From(url, delim)>>
       : delim \in {IF \E i \in 3..Len(url) : url[i] \in {"/", "?", "#"}
                    THEN CHOOSE i \in 3..Len(url) :
                           /\ url[i] \in {"/", "?", "#"}
                           /\ \A j \in 3..(i - 1) : url[j] \notin {"/", "?", "#"}
                    ELSE Len(url) + 1}})

\* _splitparams(url): the params follow the first ";" of the last segment
splitparams(url) ==
  The({IF i = 0 THEN <<url, <<>>>> ELSE <<Upto(url, i - 1), From(url, i + 1)>>
       : i \in {IF Contains(url, "/") THEN Find(url, ";", RFind(url, "/"))
                                      ELSE Find(url, ";", 1)}})

\* urlsplit(url, scheme) followed by urlparse's split of the params.
\* su: <<scheme, rest>>; nl: <<netloc, rest>>; fs: <<rest, fragment>>;
\* qs: <<rest, query>>; pp: <<path, params>>
urlparse(url, scheme) ==
  The({The({The({The({The({
    [\* raise ValueError("Invalid IPv6 URL")
     raised |-> /\ StartsWith(su[2], <<"/", "/">>)
                /\ Contains(nl[1], "[") # Contains(nl[1], "]"),
     scheme |-> su[1], netloc |-> nl[1], path |-> pp[1], params |-> pp[2],
     query |-> qs[2], fragment |-> fs[2]]
    : pp \in {IF su[1] \in uses_params /\ Contains(qs[1], ";")
              THEN splitparams(qs[1]) ELSE <<qs[1], <<>>>>}})
    : qs \in {Split1(fs[1], "?")}})
    : fs \in {Split1(nl[2], "#")}})
    : nl \in {IF StartsWith(su[2], <<"/", "/">>)
              THEN splitnetloc(su[2]) ELSE <<<<>>, su[2]>>}})
    : su \in {splitscheme(url, scheme)}})

\* urlunparse((scheme, netloc, path, params, query, fragment)), with
\* urlunsplit inlined
urlunparse(scheme, netloc, path, params, query, fragment) ==
  LET u0 == IF params # <<>> THEN path \o <<";">> \o params ELSE path
      u1 == IF \/ netloc # <<>>
               \/ (scheme # <<>> /\ scheme \in uses_netloc
                     /\ ~StartsWith(u0, <<"/", "/">>))
            THEN <<"/", "/">> \o netloc
                   \o (IF u0 # <<>> /\ u0[1] # "/" THEN <<"/">> \o u0 ELSE u0)
            ELSE u0
      u2 == IF scheme # <<>> THEN scheme \o <<":">> \o u1 ELSE u1
      u3 == IF query # <<>> THEN u2 \o <<"?">> \o query ELSE u2
  IN  IF fragment # <<>> THEN u3 \o <<"#">> \o fragment ELSE u3

\* urldefrag(url)[0]
urldefrag(url) ==
  IF Contains(url, "#")
  THEN The({urlunparse(p.scheme, p.netloc, p.path, p.params, p.query, <<>>)
            : p \in {urlparse(url, <<>>)}})
  ELSE url

RECURSIVE ResolveSegments(_, _)
\* urljoin's loop over the path segments: ".." pops, "." is skipped
ResolveSegments(segments, resolved_path) ==
  IF segments = <<>> THEN resolved_path
  ELSE The({ResolveSegments(rest, path)
            : rest \in {Tail(segments)},
              path \in {IF Head(segments) = <<".", ".">>
                        THEN IF resolved_path = <<>> THEN <<>>
                             ELSE Upto(resolved_path, Len(resolved_path) - 1)
                        ELSE IF Head(segments) = <<".">>
                        THEN resolved_path
                        ELSE Append(resolved_path, Head(segments))}})

\* segments[1:-1] = filter(None, segments[1:-1])
FilterInner(segments) ==
  IF Len(segments) <= 2 THEN segments
  ELSE <<segments[1]>>
         \o SelectSeq(SubSeq(segments, 2, Len(segments) - 1), LAMBDA x : x # <<>>)
         \o <<Last(segments)>>

\* urljoin's segments: the href's own if its path is absolute, else the
\* base's without its last one followed by the href's
JoinSegments(base_path, path) ==
  IF path # <<>> /\ path[1] = "/" THEN Split(path, "/")
  ELSE The({FilterInner(parts)
            : parts \in {The({IF Last(bp) # <<>> THEN Upto(bp, Len(bp) - 1)
                              ELSE bp
                              : bp \in {Split(base_path, "/")}})
                           \o Split(path, "/")}})

\* urljoin's resolved path: "/".join of the resolved segments, with a
\* trailing "/" after a last segment "." or "..", and "/" if it is empty
JoinPath(base_path, path) ==
  The({IF joined = <<>> THEN <<"/">> ELSE joined
       : joined \in
           {The({Join(resolved_path, "/")
                 : resolved_path \in
                     {The({The({IF Last(segments) \in {<<".">>, <<".", ".">>}
                                THEN Append(rp, <<>>) ELSE rp
                                : rp \in {ResolveSegments(segments, <<>>)}})
                           : segments \in {JoinSegments(base_path, path)}})}})}})

\* urljoin(base, url): [raised, url]
urljoin(base, url) ==
  IF base = <<>> THEN [raised |-> FALSE, url |-> url]
  ELSE IF url = <<>> THEN [raised |-> FALSE, url |-> base]
  ELSE
    The({The({
      IF b.raised \/ u.raised THEN [raised |-> TRUE, url |-> <<>>]
      ELSE IF u.scheme # b.scheme \/ u.scheme \notin uses_relative
      THEN [raised |-> FALSE, url |-> url]
      ELSE IF u.scheme \in uses_netloc /\ u.netloc # <<>>
      THEN [raised |-> FALSE,
            url |-> urlunparse(u.scheme, u.netloc, u.path, u.params,
                               u.query, u.fragment)]
      ELSE
        LET netloc == IF u.scheme \in uses_netloc THEN b.netloc ELSE u.netloc
        IN  IF u.path = <<>> /\ u.params = <<>>
            THEN [raised |-> FALSE,
                  url |-> urlunparse(u.scheme, netloc, b.path, b.params,
                            IF u.query = <<>> THEN b.query ELSE u.query,
                            u.fragment)]
            ELSE [raised |-> FALSE,
                  url |-> The({urlunparse(u.scheme, netloc, resolved,
                                          u.params, u.query, u.fragment)
                               : resolved \in {JoinPath(b.path, u.path)}})]
      : u \in {urlparse(url, b.scheme)}})
      : b \in {urlparse(base, <<>>)}})

----------------------------------------------------------------------------
(* scrap.py                                                                *)

RETRIES == 3

BACKOFF_FACTOR == 1

\* the total number of <a href> elements the crawled site serves in one crawl
MaxLinks == 3

Str_pdf == <<".","p","d","f">>

Str_fallback ==
  <<"d","o","w","n","l","o","a","d","e","d","_","f","i","l","e",".","p","d","f">>

U_Section ==
  <<"h","t","t","p","s",":","/","/","s","i","t","e",".","e","x","a","m","p","l","e","/","s","e","c","t","i","o","n","/">>

U_SectionTop == U_Section \o <<"#","t","o","p">>

H_sub == <<"s","u","b">>

H_other == <<"/","o","t","h","e","r">>

H_evil ==
  <<"h","t","t","p","s",":","/","/","s","i","t","e",".","e","x","a","m","p","l","e",".","e","v","i","l",".","c","o","m","/","s","e","c","t","i","o","n","/">>

H_page_a == <<"p","a","g","e","#","a">>

H_page_b == <<"p","a","g","e","#","b">>

H_report == <<"r","e","p","o","r","t",".","p","d","f">>

H_docs_report == <<"/","d","o","c","s","/","r","e","p","o","r","t",".","p","d","f">>

H_pagination == <<"?","p","a","g","e","=","1","?","p","a","g","e","=","2">>

H_bad == <<"h","t","t","p",":","/","/","[","b","a","d">>

H_scan == <<"S","c","a","n",".","P","D","F">>

\* the start_url argument of crawl_and_download_pdfs
StartUrls == {U_Section, U_SectionTop}

\* link['href'] of the anchors soup.find_all('a', href=True) yields
Hrefs == {H_sub, H_other, H_evil, H_page_a, H_page_b, H_report, H_docs_report,
          H_pagination, H_bad, H_scan}

\* what one session.get can do: 0 is a transport error (a RequestException
\* raised by the GET), any other number is the status of the response
GetOutcomes == {0, 200, 304, 404}

\* response.raise_for_status(): HTTPError for a 4xx or 5xx status
RaisesForStatus(status) == 400 <= status /\ status < 600

VARIABLES
  start_url,            \* the start_url argument
  urls_to_visit,        \* the frontier: a list of URL strings
  visited_urls,         \* set of fragment-stripped URLs
  downloaded_pdf_urls,  \* set of PDF URLs whose download returned True
  pc,                   \* the position of the crawl in its code
  current_url,          \* the URL popped last
  href,                 \* the href of the anchor in hand, <<>> outside the for loop
  absolute_url,         \* build_absolute_url(current_url, href) of that anchor
  attempt,              \* the loop variable of make_request_with_retries
  call_log,             \* the GETs and sleeps of the fetcher call in progress or
                        \* just returned, <<>> once the caller has moved on
  response,             \* what that call returned: a status, 0 for None or not yet
  links_left,           \* how many more anchors the site serves
  files,                \* the download folder: file name -> what it holds
  dequeued,             \* the URLs popped so far, in order
  links_found,          \* absolute URL -> anchors that resolved to it
  page_fetches,         \* fragment-stripped URL -> page fetches begun for it
  download_attempts,    \* PDF URL -> calls of download_pdf
  file_writes,          \* PDF URL -> downloads that returned True
  failed_pages,         \* fragment-stripped URLs whose page fetch returned None
  appended,             \* the URLs put in the frontier so far, in order
  depth_of,             \* URL -> links followed from the start URL when it
                        \* was first put in the frontier
  events                \* what the loop iteration in hand did before its fetch

vars == <<start_url, urls_to_visit, visited_urls, downloaded_pdf_urls, pc,
          current_url, href, absolute_url, attempt, call_log, response,
          links_left, files, dequeued, links_found, page_fetches,
          download_attempts, file_writes, failed_pages, appended, depth_of,
          events>>

\* counter[key] += 1 on a dict that defaults to 0
Bump(counter, key) ==
  IF key \in DOMAIN counter THEN [counter EXCEPT ![key] = @ + 1]
  ELSE counter @@ (key :> 1)

Count(counter, key) == IF key \in DOMAIN counter THEN counter[key] ELSE 0

\* x in urls_to_visit
InList(list, x) == \E i \in 1..Len(list) : list[i] = x

RECURSIVE Pow2(_)
Pow2(n) == IF n = 0 THEN 1 ELSE 2 * Pow2(n - 1)

\* make_request_with_retries giving up one attempt early
make_request_gives_up_early(att, log, outcome) ==
  LET got == Append(log, [ev |-> "get", val |-> outcome])
  IN  IF outcome # 0 /\ ~RaisesForStatus(outcome)
      THEN [returned |-> TRUE, result |-> outcome, attempt |-> att, log |-> got]
      ELSE IF att + 2 = RETRIES
      THEN [returned |-> TRUE, result |-> 0, attempt |-> att, log |-> got]
      ELSE [returned |-> FALSE, result |-> 0, attempt |-> att + 1,
            log |-> Append(got, [ev |-> "sleep",
                                 val |-> BACKOFF_FACTOR * Pow2(att)])]

\* make_request_with_retries with the backoff exponent off by one
make_request_wrong_backoff(att, log, outcome) ==
  LET got == Append(log, [ev |-> "get", val |-> outcome])
  IN  IF outcome # 0 /\ ~RaisesForStatus(outcome)
      THEN [returned |-> TRUE, result |-> outcome, attempt |-> att, log |-> got]
      ELSE IF att + 1 = RETRIES
      THEN [returned |-> TRUE, result |-> 0, attempt |-> att, log |-> got]
      ELSE [returned |-> FALSE, result |-> 0, attempt |-> att + 1,
            log |-> Append(got, [ev |-> "sleep",
                                 val |-> BACKOFF_FACTOR * Pow2(att + 1)])]

\* One iteration of the for loop of make_request_with_retries, entered with
\* loop variable att, the GET of this iteration ending as outcome.
\* returned: the function has returned; result: the status of the response it
\* returned, 0 for None.
make_request_with_retries(att, log, outcome) ==
  LET got == Append(log, [ev |-> "get", val |-> outcome])
  IN  IF outcome # 0 /\ ~RaisesForStatus(outcome)
      THEN [returned |-> TRUE, result |-> outcome, attempt |-> att, log |-> got]
      ELSE IF att + 1 = RETRIES
      THEN [returned |-> TRUE, result |-> 0, attempt |-> att, log |-> got]
      ELSE [returned |-> FALSE, result |-> 0, attempt |-> att + 1,
            log |-> Append(got, [ev |-> "sleep",
                                 val |-> BACKOFF_FACTOR * Pow2(att)])]

\* build_absolute_url keeping the first piece of the query, not the last
build_absolute_url_first_piece(cur, h) ==
  The({The({
    IF joined.raised \/ parsed_join.raised
    THEN [raised |-> TRUE, url |-> <<>>]
    ELSE IF Contains(parsed_join.query, "?")
    THEN [raised |-> FALSE,
          url |-> The({urlunparse(parsed_join.scheme, parsed_join.netloc,
                                  parsed_join.path, parsed_join.params,
                                  real_query, parsed_join.fragment)
                       : real_query \in
                           {Head(Split(parsed_join.query, "?"))}})]
    ELSE joined
    : parsed_join \in {urlparse(joined.url, <<>>)}})
    : joined \in {urljoin(cur, h)}})

\* build_absolute_url(current_url, href): [raised, url]
build_absolute_url(cur, h) ==
  The({The({
    IF joined.raised \/ parsed_join.raised
    THEN [raised |-> TRUE, url |-> <<>>]
    ELSE IF Contains(parsed_join.query, "?")
    THEN [raised |-> FALSE,
          url |-> The({urlunparse(parsed_join.scheme, parsed_join.netloc,
                                  parsed_join.path, parsed_join.params,
                                  real_query, parsed_join.fragment)
                       : real_query \in
                           {Last(Split(parsed_join.query, "?"))}})]
    ELSE joined
    : parsed_join \in {urlparse(joined.url, <<>>)}})
    : joined \in {urljoin(cur, h)}})

\* the suffix test of line 138 without the lower()
IsPdfCaseSensitive(url) == EndsWith(url, Str_pdf)

\* absolute_url.lower().endswith('.pdf')
IsPdf(url) == EndsWith(Lower(url), Str_pdf)

\* a scope test on the host alone: the link's host begins with the start
\* URL's host
InScopeHostPrefix(normalized, start) ==
  StartsWith(urlparse(normalized, <<>>).netloc, urlparse(start, <<>>).netloc)

\* the scope test of line 144
InScope(normalized, start) == StartsWith(normalized, start)

\* the key of visited_urls with the fragment left in
NormalizedUrlKeepsFragment(url) == url

\* lines 116 and 136: urldefrag(url)[0], the key of visited_urls
NormalizedUrl(url) == urldefrag(url)

\* line 139 without the membership test
NeedsDownloadAlways(abs, downloaded) == TRUE

\* line 139: absolute_url not in downloaded_pdf_urls
NeedsDownload(abs, downloaded) == abs \notin downloaded

\* lines 144-145 without the scope test
ShouldEnqueueNoScope(normalized, abs, start, visited, frontier) ==
  /\ normalized \notin visited
  /\ ~InList(frontier, abs)

\* the frontier set to the link alone
EnqueueReplaces(frontier, abs) == <<abs>>

\* the link put at the head of the frontier
EnqueueAtHead(frontier, abs) == <<abs>> \o frontier

\* line 146: urls_to_visit.append(absolute_url)
Enqueue(frontier, abs) == Append(frontier, abs)

\* lines 144-145 without the test against urls_to_visit
ShouldEnqueueIgnoresFrontier(normalized, abs, start, visited, frontier) ==
  /\ InScope(normalized, start)
  /\ normalized \notin visited

\* lines 144-145 without the test against visited_urls
ShouldEnqueueIgnoresVisited(normalized, abs, start, visited, frontier) ==
  /\ InScope(normalized, start)
  /\ ~InList(frontier, abs)

\* lines 144-145: the link is appended to urls_to_visit
ShouldEnqueue(normalized, abs, start, visited, frontier) ==
  /\ InScope(normalized, start)
  /\ normalized \notin visited
  /\ ~InList(frontier, abs)

\* lines 141-142 without the add
AfterDownloadNeverAdds(downloaded, abs, ok) == downloaded

\* lines 141-142 ignoring what download_pdf returned
AfterDownloadAlwaysAdds(downloaded, abs, ok) == downloaded \cup {abs}

\* lines 141-142: downloaded_pdf_urls after download_pdf returned ok
AfterDownload(downloaded, abs, ok) ==
  IF ok THEN downloaded \cup {abs} ELSE downloaded

\* the whole path of the URL as the file name
PdfFilenameWholePath(pdf_url) ==
  The({IF path = <<>> THEN Str_fallback ELSE path
       : path \in {urlparse(pdf_url, <<>>).path}})

\* os.path.basename(urlparse(pdf_url).path), or the fallback name
PdfFilename(pdf_url) ==
  The({IF filename = <<>> THEN Str_fallback ELSE filename
       : filename \in {The({From(path, RFind(path, "/") + 1)
                            : path \in {urlparse(pdf_url, <<>>).path}})}})

\* lines 116-122 with the delay ahead of the test of line 117
BeforeFetchDelaysFirst(normalized, visited) ==
  IF normalized \in visited THEN <<"polite_delay">>
  ELSE <<"polite_delay", "visited">>

\* lines 117-122: what an iteration does to a popped URL before its fetch:
\* nothing if its stripped form was visited, else it marks it visited and sleeps
\* POLITE_DELAY_SECONDS
BeforeFetch(normalized, visited) ==
  IF normalized \in visited THEN <<>> ELSE <<"visited", "polite_delay">>

Init ==
  /\ start_url \in StartUrls
  /\ urls_to_visit = <<start_url>>
  /\ visited_urls = {}
  /\ downloaded_pdf_urls = {}
  /\ pc = "loop"
  /\ current_url = <<>>
  /\ href = <<>>
  /\ absolute_url = <<>>
  /\ attempt = 0
  /\ call_log = <<>>
  /\ response = 0
  /\ links_left = MaxLinks
  /\ files = <<>>
  /\ dequeued = <<>>
  /\ links_found = <<>>
  /\ page_fetches = <<>>
  /\ download_attempts = <<>>
  /\ file_writes = <<>>
  /\ failed_pages = {}
  /\ appended = <<start_url>>
  /\ depth_of = (start_url :> 0)
  /\ events = <<>>

\* lines 114-122: pop the head; skip it if its stripped form was visited,
\* else mark it visited, sleep the polite delay and enter the page fetch
Dequeue ==
  /\ pc = "loop"
  /\ urls_to_visit # <<>>
  /\ \E cur \in {Head(urls_to_visit)} :
       \E normalized_url \in {NormalizedUrl(cur)}, fetched \in {urldefrag(cur)} :
         /\ current_url' = cur
         /\ dequeued' = Append(dequeued, cur)
         /\ urls_to_visit' = Tail(urls_to_visit)
         /\ events' = BeforeFetch(normalized_url, visited_urls)
         /\ IF normalized_url \in visited_urls
            THEN UNCHANGED <<visited_urls, pc, page_fetches>>
            ELSE /\ visited_urls' = visited_urls \cup {normalized_url}
                 /\ pc' = "page_get"
                 /\ page_fetches' = Bump(page_fetches, fetched)
  /\ attempt' = 0
  /\ call_log' = <<>>
  /\ response' = 0
  /\ UNCHANGED <<start_url, downloaded_pdf_urls, href, absolute_url,
                 links_left, files, links_found, download_attempts,
                 file_writes, failed_pages, appended, depth_of>>

\* line 114 with an empty frontier: the while loop ends, lines 148-154
Finish ==
  /\ pc = "loop"
  /\ urls_to_visit = <<>>
  /\ pc' = "done"
  /\ attempt' = 0
  /\ call_log' = <<>>
  /\ response' = 0
  /\ UNCHANGED <<start_url, urls_to_visit, visited_urls, downloaded_pdf_urls,
                 current_url, href, absolute_url, links_left, files, dequeued,
                 links_found, page_fetches, download_attempts, file_writes,
                 failed_pages, appended, depth_of, events>>

\* lines 124-126: one GET of the page fetch
PageGet(outcome) ==
  /\ pc = "page_get"
  /\ LET r == make_request_with_retries(attempt, call_log, outcome)
     IN  /\ attempt' = r.attempt
         /\ call_log' = r.log
         /\ response' = r.result
         /\ pc' = IF ~r.returned THEN "page_get"
                  ELSE IF r.result = 0 THEN "loop" ELSE "links"
         /\ failed_pages' = IF r.returned /\ r.result = 0
                            THEN failed_pages \cup {urldefrag(current_url)}
                            ELSE failed_pages
  /\ UNCHANGED <<start_url, urls_to_visit, visited_urls, downloaded_pdf_urls,
                 current_url, href, absolute_url, links_left, files, dequeued,
                 links_found, page_fetches, download_attempts, file_writes,
                 appended, depth_of, events>>

\* lines 130-146: one anchor of the page. A ValueError of the URL builder is
\* caught nowhere and ends crawl_and_download_pdfs.
NextLink(h) ==
  /\ pc = "links"
  /\ links_left > 0
  /\ links_left' = links_left - 1
  /\ href' = h
  /\ \E built \in {build_absolute_url(current_url, h)} :
       \E abs \in {built.url} :
       \E normalized_absolute_url \in {NormalizedUrl(abs)} :
         /\ absolute_url' = abs
         /\ links_found' = IF built.raised THEN links_found
                           ELSE Bump(links_found, abs)
         /\ IF built.raised
            THEN /\ pc' = "crashed"
                 /\ UNCHANGED <<urls_to_visit, download_attempts, appended,
                                depth_of>>
            ELSE IF IsPdf(abs)
            THEN IF NeedsDownload(abs, downloaded_pdf_urls)
                 THEN /\ pc' = "pdf_get"
                      /\ download_attempts' = Bump(download_attempts, abs)
                      /\ UNCHANGED <<urls_to_visit, appended, depth_of>>
                 ELSE UNCHANGED <<pc, urls_to_visit, download_attempts,
                                  appended, depth_of>>
            ELSE /\ IF ShouldEnqueue(normalized_absolute_url, abs, start_url,
                                     visited_urls, urls_to_visit)
                    THEN /\ urls_to_visit' = Enqueue(urls_to_visit, abs)
                         /\ appended' = Append(appended, abs)
                         /\ depth_of' =
                              IF abs \in DOMAIN depth_of THEN depth_of
                              ELSE depth_of @@ (abs :> depth_of[current_url] + 1)
                    ELSE UNCHANGED <<urls_to_visit, appended, depth_of>>
                 /\ UNCHANGED <<pc, download_attempts>>
  /\ attempt' = 0
  /\ call_log' = <<>>
  /\ response' = 0
  /\ UNCHANGED <<start_url, visited_urls, downloaded_pdf_urls, current_url,
                 files, dequeued, page_fetches, file_writes, failed_pages,
                 events>>

\* line 130: the page has no further anchor
EndLinks ==
  /\ pc = "links"
  /\ pc' = "loop"
  /\ href' = <<>>
  /\ absolute_url' = <<>>
  /\ attempt' = 0
  /\ call_log' = <<>>
  /\ response' = 0
  /\ UNCHANGED <<start_url, urls_to_visit, visited_urls, downloaded_pdf_urls,
                 current_url, links_left, files, dequeued, links_found,
                 page_fetches, download_attempts, file_writes, failed_pages,
                 appended, depth_of, events>>

\* lines 80-82: one GET of download_pdf's fetch
PdfGet(outcome) ==
  /\ pc = "pdf_get"
  /\ LET r == make_request_with_retries(attempt, call_log, outcome)
     IN  /\ attempt' = r.attempt
         /\ call_log' = r.log
         /\ response' = r.result
         /\ pc' = IF ~r.returned THEN "pdf_get"
                  ELSE IF r.result = 0 THEN "links" ELSE "pdf_write"
         \* lines 81-82 and 141: download_pdf returns False
         /\ downloaded_pdf_urls' =
              IF r.returned /\ r.result = 0
              THEN AfterDownload(downloaded_pdf_urls, absolute_url, FALSE)
              ELSE downloaded_pdf_urls
  /\ UNCHANGED <<start_url, urls_to_visit, visited_urls,
                 current_url, href, absolute_url, links_left, files, dequeued,
                 links_found, page_fetches, download_attempts, file_writes,
                 failed_pages, appended, depth_of, events>>

\* lines 84-97 and 141-142: the file is written. io is "ok", or the open
\* raises ("open_fails"), or a chunk read or write raises after the file was
\* opened ("write_fails"); either exception is caught at line 95.
PdfWrite(io) ==
  /\ pc = "pdf_write"
  /\ pc' = "links"
  /\ \E file_path \in {PdfFilename(absolute_url)} :
         CASE io = "ok" ->
                /\ files' = [n \in DOMAIN files \cup {file_path} |->
                               IF n = file_path
                               THEN [url |-> absolute_url, complete |-> TRUE]
                               ELSE files[n]]
                /\ downloaded_pdf_urls' =
                     AfterDownload(downloaded_pdf_urls, absolute_url, TRUE)
                /\ file_writes' = Bump(file_writes, absolute_url)
          [] io = "write_fails" ->
                /\ files' = [n \in DOMAIN files \cup {file_path} |->
                               IF n = file_path
                               THEN [url |-> absolute_url, complete |-> FALSE]
                               ELSE files[n]]
                /\ downloaded_pdf_urls' =
                     AfterDownload(downloaded_pdf_urls, absolute_url, FALSE)
                /\ UNCHANGED file_writes
          [] OTHER ->
                /\ downloaded_pdf_urls' =
                     AfterDownload(downloaded_pdf_urls, absolute_url, FALSE)
                /\ UNCHANGED <<files, file_writes>>
  /\ attempt' = 0
  /\ call_log' = <<>>
  /\ response' = 0
  /\ UNCHANGED <<start_url, urls_to_visit, visited_urls, current_url, href,
                 absolute_url, links_left, dequeued, links_found, page_fetches,
                 download_attempts, failed_pages, appended, depth_of, events>>

Next ==
  \/ Dequeue
  \/ Finish
  \/ \E outcome \in GetOutcomes : PageGet(outcome)
  \/ \E h \in Hrefs : NextLink(h)
  \/ EndLinks
  \/ \E outcome \in GetOutcomes : PdfGet(outcome)
  \/ \E io \in {"ok", "open_fails", "write_fails"} : PdfWrite(io)

Spec == Init /\ [][Next]_vars

----------------------------------------------------------------------------
(* build_absolute_url as a function: a base and an href are drawn and      *)
(* the builder is applied to them                                          *)

U_XY1 == <<"h","t","t","p","s",":","/","/","x","/","y","?","p","a","g","e","=","1">>

U_XY2 == <<"h","t","t","p","s",":","/","/","x","/","y","?","p","a","g","e","=","2">>

U_Params == <<"h","t","t","p","s",":","/","/","x","/","a","/","b",";","p","?","q","#","f">>

U_Imy ==
  <<"h","t","t","p","s",":","/","/","i","m","y",".","t","e","s","t","/","t","i","l","l","s","y","n","e","r","/">>

U_Sub == U_Section \o H_sub

U_Other == <<"h","t","t","p","s",":","/","/","s","i","t","e",".","e","x","a","m","p","l","e","/","o","t","h","e","r">>

H_page2 == <<"?","p","a","g","e","=","2">>

H_up == <<".",".","/","u","p","?","a","?","b","#","c">>

H_emptyq == <<"?","a","?">>

H_fragq == <<"?","a","?","#","f","?","g">>

H_params == <<"p",";","q","?","a","?","b">>

H_netpath == <<"/","/","h","/","p","?","a","?","b">>

H_top == <<"#","t","o","p">>

H_plainq == <<"x","?","y">>

H_upper == <<"H","T","T","P","S",":","/","/","X","/","Y","?","a","?","b","#","c">>

H_mailto == <<"m","a","i","l","t","o",":","a","?","b","?","c">>

H_hostless == <<"h","t","t","p",":","f","o","o","?","a","?","b">>

ResolveBases == {U_XY1, U_Section, U_Sub, U_Params, U_Imy}

ResolveHrefs == {H_page2, H_pagination, H_sub, H_other, H_page_a, H_evil, H_up,
                 H_emptyq, H_fragq, H_params, H_netpath, H_top, <<>>, H_plainq,
                 H_upper, H_mailto, H_hostless, H_report, H_bad}

ResolveInit ==
  /\ pc = "resolve"
  /\ current_url \in ResolveBases
  /\ href \in ResolveHrefs
  /\ absolute_url = <<>>
  /\ start_url = <<>>
  /\ urls_to_visit = <<>>
  /\ visited_urls = {}
  /\ downloaded_pdf_urls = {}
  /\ attempt = 0
  /\ call_log = <<>>
  /\ response = 0
  /\ links_left = 0
  /\ files = <<>>
  /\ dequeued = <<>>
  /\ links_found = <<>>
  /\ page_fetches = <<>>
  /\ download_attempts = <<>>
  /\ file_writes = <<>>
  /\ failed_pages = {}
  /\ appended = <<>>
  /\ depth_of = <<>>
  /\ events = <<>>

\* line 134: absolute_url = build_absolute_url(current_url, href)
Resolve ==
  /\ pc = "resolve"
  /\ \E built \in {build_absolute_url(current_url, href)} :
         /\ absolute_url' = built.url
         /\ pc' = IF built.raised THEN "resolve_raised" ELSE "resolved"
  /\ UNCHANGED <<start_url, urls_to_visit, visited_urls, downloaded_pdf_urls,
                 current_url, href, attempt, call_log, response, links_left,
                 files, dequeued, links_found, page_fetches, download_attempts,
                 file_writes, failed_pages, appended, depth_of, events>>

ResolveNext == Resolve

ResolveSpec == ResolveInit /\ [][ResolveNext]_vars

----------------------------------------------------------------------------
(* The crawl of a small site: page A at https://imy.test/tillsyner/ links  *)
(* to page B and to report.pdf, page B links back to A and to              *)
(* https://imy.test/tillsyner/?page=2, and every fetch ends with a         *)
(* response.  What the ?page=2 page serves is left open: the anchors of    *)
(* page A or of page B, or the first ones of them only, or none.           *)

H_b == <<"b">>

U_ImyB == U_Imy \o H_b

U_ImyReport == U_Imy \o H_report

U_ImyPage2 == U_Imy \o H_page2

\* the hrefs of the anchors of page A, in document order
AnchorsA == <<H_b, U_ImyReport>>

\* the hrefs of the anchors of page B
AnchorsB == <<U_Imy, U_ImyPage2>>

\* the anchors the site serves at a URL; h is the href in hand, which tells
\* which anchors the ?page=2 page turned out to serve
SiteAnchors(url, h) ==
  IF url = U_ImyB \/ (url = U_ImyPage2 /\ InList(AnchorsB, h))
  THEN AnchorsB ELSE AnchorsA

\* the anchor that follows href h in a page's anchors, <<>> after the last one
AnchorAfter(anchors, h) ==
  IF h = <<>> THEN anchors[1]
  ELSE The({IF i < Len(anchors) THEN anchors[i + 1] ELSE <<>>
            : i \in {CHOOSE k \in 1..Len(anchors) : anchors[k] = h}})

ScenarioInit ==
  /\ start_url = U_Imy
  /\ urls_to_visit = <<start_url>>
  /\ visited_urls = {}
  /\ downloaded_pdf_urls = {}
  /\ pc = "loop"
  /\ current_url = <<>>
  /\ href = <<>>
  /\ absolute_url = <<>>
  /\ attempt = 0
  /\ call_log = <<>>
  /\ response = 0
  /\ links_left = Len(AnchorsA) + Len(AnchorsB) + Len(AnchorsA)
  /\ files = <<>>
  /\ dequeued = <<>>
  /\ links_found = <<>>
  /\ page_fetches = <<>>
  /\ download_attempts = <<>>
  /\ file_writes = <<>>
  /\ failed_pages = {}
  /\ appended = <<start_url>>
  /\ depth_of = (start_url :> 0)
  /\ events = <<>>

\* a GET of a fetch that ends with a response: it may fail, but not as the
\* last attempt
ScenarioOutcomes ==
  {outcome \in GetOutcomes :
     (outcome # 0 /\ ~RaisesForStatus(outcome)) \/ attempt + 1 < RETRIES}

\* line 130 on this site: the next anchor of the page in hand
ScenarioLink ==
  /\ pc = "links"
  /\ \E h \in {AnchorAfter(SiteAnchors(current_url, href), href)}
               \cup (IF current_url = U_ImyPage2 /\ href = <<>>
                     THEN {AnchorsB[1]} ELSE {}) :
       /\ h # <<>>
       /\ NextLink(h)

\* line 130 on this site: the page in hand has no further anchor
ScenarioEndLinks ==
  /\ pc = "links"
  /\ \/ AnchorAfter(SiteAnchors(current_url, href), href) = <<>>
     \/ current_url = U_ImyPage2
  /\ EndLinks

ScenarioNext ==
  \/ Dequeue
  \/ Finish
  \/ \E outcome \in ScenarioOutcomes : PageGet(outcome)
  \/ ScenarioLink
  \/ ScenarioEndLinks
  \/ \E outcome \in ScenarioOutcomes : PdfGet(outcome)
  \/ PdfWrite("ok")

ScenarioSpec == ScenarioInit /\ [][ScenarioNext]_vars

\* the loop and the calls it makes go on as long as they can
FairScenarioSpec == ScenarioSpec /\ WF_vars(ScenarioNext)

----------------------------------------------------------------------------
(* The claims                                                              *)

\* the set of elements of a list
Elems(list) == {list[i] : i \in 1..Len(list)}

\* C1: every dequeued URL has had exactly one page fetch begun for its
\* fragment-stripped form, however many dequeued entries share that form: at
\* most one of them proceeds to the fetch, the later ones are discarded.
C1_PageFetchedAtMostOnce ==
  /\ \A u \in DOMAIN page_fetches : page_fetches[u] <= 1
  /\ \A i \in 1..Len(dequeued) : Count(page_fetches, urldefrag(dequeued[i])) = 1

\* two different entries with the same stripped form (page#a, page#b) were
\* dequeued
C1_Witness ==
  \E i, j \in 1..Len(dequeued) :
    /\ i < j
    /\ dequeued[i] # dequeued[j]
    /\ urldefrag(dequeued[i]) = urldefrag(dequeued[j])
    /\ Count(page_fetches, urldefrag(dequeued[j])) = 1

\* C2: no PDF URL is written more than once, and once a URL is in
\* downloaded_pdf_urls no step starts another download of it or writes it again.
C2_NoRedownload ==
  /\ [](\A u \in DOMAIN file_writes : file_writes[u] <= 1)
  /\ [][\A u \in downloaded_pdf_urls :
          /\ Count(download_attempts', u) = Count(download_attempts, u)
          /\ Count(file_writes', u) = Count(file_writes, u)]_vars

\* a downloaded PDF was linked again, from a page other than the start page,
\* and no second download was tried
C2_Witness ==
  \E u \in downloaded_pdf_urls :
    /\ Count(links_found, u) >= 2
    /\ Count(download_attempts, u) = 1
    /\ Count(file_writes, u) = 1
    /\ pc = "links"
    /\ absolute_url = u
    /\ current_url # start_url

\* C3: a PDF URL is in downloaded_pdf_urls only after a download of it
\* succeeded, and as long as it is not there every anchor that resolved to it
\* started a download attempt.
C3_FailedDownloadRetried ==
  /\ \A u \in downloaded_pdf_urls : Count(file_writes, u) >= 1
  /\ \A u \in DOMAIN links_found :
       (IsPdf(u) /\ u \notin downloaded_pdf_urls) =>
          /\ Count(download_attempts, u) = links_found[u]
          /\ Count(file_writes, u) = 0

\* the second download attempt of a URL whose first attempt failed is running
C3_Witness ==
  /\ pc = "pdf_get"
  /\ absolute_url \notin downloaded_pdf_urls
  /\ Count(download_attempts, absolute_url) = 2
  /\ Count(links_found, absolute_url) = 2

\* a GET attempt failed: a transport error, or a status raise_for_status
\* raises for
AttemptFailed(val) == val = 0 \/ (400 <= val /\ val < 600)

\* the GET attempts of a log
GetsOf(log) == SelectSeq(log, LAMBDA e : e.ev = "get")

\* a call of the fetcher is in progress
InCall == pc \in {"page_get", "pdf_get"}

\* a call of the fetcher has just returned
Returned == ~InCall /\ call_log # <<>>

\* C4: a call of the fetcher makes at most 3 GETs, every GET before the last
\* one failed, the call goes on only after a failure, and it returns None
\* exactly when 3 GETs failed; otherwise it returns the response of the last GET.
C4_AtMostThreeAttempts ==
  LET gets == GetsOf(call_log)
      n == Len(gets)
      allFailed == \A i \in 1..n : AttemptFailed(gets[i].val)
  IN  /\ n <= 3
      /\ \A i \in 1..(n - 1) : AttemptFailed(gets[i].val)
      /\ InCall => (n < 3 /\ allFailed)
      /\ Returned =>
           /\ (response = 0) <=> (n = 3 /\ allFailed)
           /\ (response # 0) => (~AttemptFailed(gets[n].val) /\ response = gets[n].val)

\* a call returned a response after two failed GETs
C4_Witness ==
  LET gets == GetsOf(call_log)
  IN  /\ Returned
      /\ Len(gets) = 3
      /\ AttemptFailed(gets[1].val)
      /\ AttemptFailed(gets[2].val)
      /\ response # 0

\* the number of GETs among the first k events of a log
GetsUpto(log, k) == Len(GetsOf(SubSeq(log, 1, k)))

\* C5: in the log of a call, the first failed GET is followed by one sleep of
\* 1 second and the second by one sleep of 2 seconds; nothing follows the
\* third failed GET or a successful GET; every sleep follows a failed GET.
C5_BackoffSleeps ==
  \A k \in 1..Len(call_log) :
    LET e == call_log[k]
        nth == GetsUpto(call_log, k)
    IN  IF e.ev = "get"
        THEN IF AttemptFailed(e.val) /\ nth < 3
             THEN /\ k < Len(call_log)
                  /\ call_log[k + 1] = [ev |-> "sleep",
                                        val |-> IF nth = 1 THEN 1 ELSE 2]
             ELSE k = Len(call_log)
        ELSE /\ k > 1
             /\ call_log[k - 1].ev = "get"
             /\ AttemptFailed(call_log[k - 1].val)

\* a call whose first two GETs failed has returned: its log holds both sleeps
C5_Witness ==
  /\ Returned
  /\ Len(call_log) = 5
  /\ call_log[2] = [ev |-> "sleep", val |-> 1]
  /\ call_log[4] = [ev |-> "sleep", val |-> 2]

\* the crawl has come to rest: it is at none of the positions from which its
\* code goes on
AtRest == pc \notin {"loop", "page_get", "links", "pdf_get", "pdf_write"}

\* C6: the crawl comes to rest only by finishing: the loop test of line 114
\* found the frontier empty and the crawl reported its totals.
C6_CrawlFinishes == AtRest => (pc = "done" /\ urls_to_visit = <<>>)

\* C7 as stated: every URL in the frontier or the visited set has a
\* fragment-stripped form that begins with the start URL.
C7_AllUnderStartUrl ==
  \A u \in Elems(urls_to_visit) \cup visited_urls :
    StartsWith(urldefrag(u), start_url)

\* C7 amended: every URL in the frontier or the visited set other than the
\* start URL and its fragment-stripped form has a fragment-stripped form that
\* begins with the start URL; with start URL https://site.example/section/,
\* https://site.example/other is never enqueued and
\* https://site.example/section/sub, once found, is enqueued (and later visited).
C7_DiscoveredUnderStartUrl ==
  /\ \A u \in Elems(urls_to_visit) \cup visited_urls :
       \/ u \in {start_url, urldefrag(start_url)}
       \/ StartsWith(urldefrag(u), start_url)
  /\ start_url = U_Section =>
       /\ U_Other \notin Elems(urls_to_visit) \cup visited_urls
       /\ Count(links_found, U_Sub) > 0 =>
            U_Sub \in Elems(urls_to_visit) \cup visited_urls

\* /other has just been found and discarded while /section/sub waits in the
\* frontier
C7_Witness ==
  /\ start_url = U_Section
  /\ pc = "links"
  /\ href = H_other
  /\ absolute_url = U_Other
  /\ InList(urls_to_visit, U_Sub)
  /\ ~InList(urls_to_visit, U_Other)

\* C8 as stated: with start URL https://site.example/section/, the link
\* https://site.example.evil.com/section/ passes the scope test: once an anchor
\* resolved to it, it is in the frontier or has been dequeued and visited.
C8_EvilHostEnqueued ==
  (start_url = U_Section /\ Count(links_found, H_evil) > 0) =>
     H_evil \in Elems(urls_to_visit) \cup visited_urls

\* C8 amended: with start URL https://site.example/section/, the link
\* https://site.example.evil.com/section/ fails the prefix test (the start URL
\* goes on with "/" after site.example, the link with ".") and is never in the
\* frontier or the visited set.
C8_EvilHostDiscarded ==
  start_url = U_Section =>
    H_evil \notin Elems(urls_to_visit) \cup visited_urls

\* an anchor resolved to the evil-host link and the link was discarded
C8_Witness ==
  /\ start_url = U_Section
  /\ pc = "links"
  /\ href = H_evil
  /\ absolute_url = H_evil
  /\ Count(links_found, H_evil) > 0
  /\ ~InList(urls_to_visit, H_evil)

\* the piece of a query after its last "?"
AfterLastQuestionMark(query) == From(query, RFind(query, "?") + 1)

\* C9 as stated: when the query of urljoin(base, href) holds a "?", the
\* built URL has the same scheme, host, path and fragment and the query cut to
\* what follows its last "?"; otherwise it is urljoin(base, href). The query of
\* the built URL holds no "?", and https://x/y?page=1 with ?page=2 gives
\* https://x/y?page=2.
C9_QueryRepair ==
  pc = "resolved" =>
    LET joined == urljoin(current_url, href).url
        pj == urlparse(joined, <<>>)
        pr == urlparse(absolute_url, <<>>)
    IN  /\ IF Contains(pj.query, "?")
           THEN /\ pr.scheme = pj.scheme
                /\ pr.netloc = pj.netloc
                /\ pr.path = pj.path
                /\ pr.fragment = pj.fragment
                /\ pr.query = AfterLastQuestionMark(pj.query)
           ELSE absolute_url = joined
        /\ ~Contains(pr.query, "?")
        /\ (current_url = U_XY1 /\ href = H_page2) => absolute_url = U_XY2

\* C9 amended: as C9, but the host and the path are the same only when
\* urljoin(base, href) has a host; scheme, fragment and the cut query are as
\* stated for every URL.
C9_QueryRepairWithHost ==
  pc = "resolved" =>
    LET joined == urljoin(current_url, href).url
        pj == urlparse(joined, <<>>)
        pr == urlparse(absolute_url, <<>>)
    IN  /\ IF Contains(pj.query, "?")
           THEN /\ pr.scheme = pj.scheme
                /\ pr.fragment = pj.fragment
                /\ pr.query = AfterLastQuestionMark(pj.query)
                /\ pj.netloc # <<>> => (pr.netloc = pj.netloc /\ pr.path = pj.path)
           ELSE absolute_url = joined
        /\ ~Contains(pr.query, "?")
        /\ (current_url = U_XY1 /\ href = H_page2) => absolute_url = U_XY2

\* the malformed pagination link ?page=1?page=2 was repaired
C9_Witness ==
  /\ pc = "resolved"
  /\ current_url = U_XY1
  /\ href = H_pagination
  /\ Contains(urlparse(urljoin(current_url, href).url, <<>>).query, "?")
  /\ absolute_url = U_XY2

\* C10: when resolving the href of an anchor raises, the crawl stays in the
\* loop over the page's anchors, and the frontier and both sets are unchanged.
C10_BadHrefOnlyDiscarded ==
  [][(pc = "links" /\ links_left' < links_left
        /\ build_absolute_url(current_url, href').raised)
     => (pc' = "links"
           /\ UNCHANGED <<urls_to_visit, visited_urls, downloaded_pdf_urls>>)]_vars

\* C11: a GET whose status is outside 200-299 counts as a failed attempt: it
\* is followed by the backoff sleep, or it is the third GET and the call
\* returns None; a call never returns a response whose status is outside
\* 200-299.
C11_Non2xxIsFailure ==
  /\ \A k \in 1..Len(call_log) :
       (call_log[k].ev = "get" /\ call_log[k].val \notin 200..299) =>
          \/ k < Len(call_log) /\ call_log[k + 1].ev = "sleep"
          \/ GetsUpto(call_log, k) = RETRIES /\ (Returned => response = 0)
  /\ Returned => (response = 0 \/ response \in 200..299)

\* C12: the step in which a page fetch returns None leaves the frontier and
\* both sets as they are, with the page's fragment-stripped URL in visited_urls,
\* and goes back to the loop test; visited_urls never loses a URL; no URL whose
\* fragment-stripped form is in visited_urls is appended to the frontier; no
\* page is fetched twice, and a page whose fetch failed is marked visited.
C12_FailedPageAbandoned ==
  /\ [][(pc = "page_get" /\ pc' # "page_get" /\ response' = 0) =>
          /\ pc' = "loop"
          /\ urldefrag(current_url) \in visited_urls'
          /\ UNCHANGED <<urls_to_visit, visited_urls, downloaded_pdf_urls>>]_vars
  /\ [][visited_urls \subseteq visited_urls']_vars
  /\ [][Len(urls_to_visit') > Len(urls_to_visit) =>
          /\ urls_to_visit' = Append(urls_to_visit, Last(urls_to_visit'))
          /\ urldefrag(Last(urls_to_visit')) \notin visited_urls]_vars
  /\ [](/\ failed_pages \subseteq visited_urls
        /\ \A u \in failed_pages : Count(page_fetches, u) = 1)

\* a link to a page whose fetch had failed was found on a later page, and the
\* link was not put in the frontier
C12_Witness ==
  /\ pc = "links"
  /\ href # <<>>
  /\ urldefrag(absolute_url) \in failed_pages
  /\ urldefrag(absolute_url) # urldefrag(current_url)
  /\ ~InList(urls_to_visit, absolute_url)
  /\ Count(page_fetches, urldefrag(absolute_url)) = 1

\* C13: on the site of pages A and B, when the crawl has finished, A, B and
\* the ?page=2 URL have each been fetched exactly once, the ?page=2 URL was put
\* in the frontier exactly once, report.pdf was downloaded exactly once; and
\* the crawl does finish.
C13_ScenarioOutcome ==
  /\ [](pc = "done" =>
          /\ Count(page_fetches, U_Imy) = 1
          /\ Count(page_fetches, U_ImyB) = 1
          /\ Count(page_fetches, U_ImyPage2) = 1
          /\ Len(SelectSeq(appended, LAMBDA u : u = U_ImyPage2)) = 1
          /\ Len(SelectSeq(dequeued, LAMBDA u : u = U_ImyPage2)) = 1
          /\ Count(download_attempts, U_ImyReport) = 1
          /\ Count(file_writes, U_ImyReport) = 1
          /\ downloaded_pdf_urls = {U_ImyReport}
          /\ visited_urls = {U_Imy, U_ImyB, U_ImyPage2}
          /\ urls_to_visit = <<>>)
  /\ [](/\ \A u \in DOMAIN page_fetches : page_fetches[u] <= 1
        /\ \A u \in DOMAIN file_writes : file_writes[u] <= 1
        /\ pc # "crashed")
  /\ <>(pc = "done")

\* the crawl of the site has finished, the ?page=2 page having served the
\* anchors of page A again
C13_Witness ==
  /\ pc = "done"
  /\ start_url = U_Imy
  /\ dequeued = <<U_Imy, U_ImyB, U_ImyPage2>>
  /\ Count(links_found, U_ImyReport) = 2
  /\ Count(links_found, U_ImyB) = 2
  /\ Count(links_found, U_Imy) = 1
  /\ Count(file_writes, U_ImyReport) = 1

\* C14: no URL string was put in the frontier twice, the start URL of line
\* 107 counted, and the frontier holds no string twice.
C14_NoDoubleEnqueue ==
  /\ \A i, j \in 1..Len(appended) : appended[i] = appended[j] => i = j
  /\ \A i, j \in 1..Len(urls_to_visit) :
       urls_to_visit[i] = urls_to_visit[j] => i = j

\* an anchor resolved to a URL that waits in the frontier, its page not yet
\* visited, and the URL was not appended again
C14_Witness ==
  /\ pc = "links"
  /\ href # <<>>
  /\ InList(urls_to_visit, absolute_url)
  /\ Count(links_found, absolute_url) = 2
  /\ urldefrag(absolute_url) \notin visited_urls
  /\ Len(SelectSeq(appended, LAMBDA u : u = absolute_url)) = 1

\* C15: the URLs dequeued so far followed by the frontier are the URLs in the
\* order they were put in the frontier, the start URL first; in that order the
\* number of links followed from the start URL never decreases, so every page
\* found at distance d is dequeued before any page found at distance d + 1.
C15_FifoBreadthFirst ==
  /\ dequeued \o urls_to_visit = appended
  /\ appended[1] = start_url
  /\ \A i, j \in 1..Len(appended) :
       i < j => depth_of[appended[i]] <= depth_of[appended[j]]
  /\ \A i, j \in 1..Len(dequeued) :
       i < j => depth_of[dequeued[i]] <= depth_of[dequeued[j]]

\* two pages found on the start page were dequeued, then a page found on the
\* first of them
C15_Witness ==
  /\ Len(dequeued) = 4
  /\ depth_of[dequeued[2]] = 1
  /\ depth_of[dequeued[3]] = 1
  /\ depth_of[dequeued[4]] = 2

\* C16: a page fetch is in progress only after its iteration marked the URL
\* visited and then slept the polite delay, once; in the step that pops a URL,
\* either its stripped form was visited and there is no delay and no fetch, or
\* the URL is marked, the delay is slept and the fetch begins with no GET made
\* yet; a page fetch begins in no other step.
C16_PoliteDelayBeforeFetch ==
  /\ [](pc = "page_get" =>
          /\ events = <<"visited", "polite_delay">>
          /\ urldefrag(current_url) \in visited_urls)
  /\ [][Len(dequeued') > Len(dequeued) =>
          IF urldefrag(current_url') \in visited_urls
          THEN /\ events' = <<>>
               /\ pc' = "loop"
               /\ UNCHANGED <<page_fetches, visited_urls>>
          ELSE /\ events' = <<"visited", "polite_delay">>
               /\ pc' = "page_get"
               /\ call_log' = <<>>
               /\ page_fetches' = Bump(page_fetches, urldefrag(current_url'))]_vars
  /\ [][page_fetches' # page_fetches => Len(dequeued') > Len(dequeued)]_vars

\* a popped URL was skipped as visited, after two pages had been fetched
C16_Witness ==
  /\ pc = "loop"
  /\ Len(dequeued) = 3
  /\ current_url = dequeued[3]
  /\ events = <<>>
  /\ urldefrag(current_url) \in visited_urls
  /\ Count(page_fetches, urldefrag(dequeued[1])) = 1
  /\ Count(page_fetches, urldefrag(dequeued[2])) = 1
  /\ urldefrag(dequeued[2]) = urldefrag(dequeued[3])

\* C17: a download in progress changes neither set nor the frontier; the step
\* that ends it without success (the fetch returned None, or the open or a
\* write raised) goes back to the anchors of the same page with the frontier
\* and both sets unchanged, and nothing ends the crawl.
C17_FailedDownloadContained ==
  [][/\ pc = "pdf_get" =>
          /\ pc' \in {"pdf_get", "pdf_write", "links"}
          /\ (pc' = "links" => response' = 0)
          /\ UNCHANGED <<downloaded_pdf_urls, visited_urls, urls_to_visit,
                         current_url>>
     /\ pc = "pdf_write" =>
          /\ pc' = "links"
          /\ UNCHANGED <<visited_urls, urls_to_visit, current_url>>
          /\ IF file_writes' = file_writes
             THEN UNCHANGED downloaded_pdf_urls
             ELSE downloaded_pdf_urls' = downloaded_pdf_urls \cup {absolute_url}
     /\ pc' = "pdf_get" =>
          UNCHANGED <<downloaded_pdf_urls, visited_urls, urls_to_visit,
                      current_url>>]_vars

\* a download whose write raised after the file was opened has ended: the
\* crawl is back at the page's anchors and the URL is not in the downloaded set
C17_Witness ==
  /\ pc = "links"
  /\ IsPdf(absolute_url)
  /\ absolute_url \notin downloaded_pdf_urls
  /\ Count(download_attempts, absolute_url) = 1
  /\ PdfFilename(absolute_url) \in DOMAIN files
  /\ files[PdfFilename(absolute_url)] = [url |-> absolute_url, complete |-> FALSE]

\* the URL ends with ".pdf" in any letter case
EndsInPdfAnyCase(u) ==
  /\ Len(u) >= 4
  /\ u[Len(u) - 3] = "."
  /\ u[Len(u) - 2] \in {"p", "P"}
  /\ u[Len(u) - 1] \in {"d", "D"}
  /\ u[Len(u)] \in {"f", "F"}

\* C18: every URL an anchor resolved to that ends with .pdf in any letter case
\* has had a download attempted, in scope or not, and was never put in the
\* frontier; no URL put in the frontier after the start URL ends with .pdf.
C18_PdfBeforeScope ==
  /\ \A u \in DOMAIN links_found :
       EndsInPdfAnyCase(u) =>
          /\ Count(download_attempts, u) >= 1
          /\ \A i \in 2..Len(appended) : appended[i] # u
  /\ \A i \in 2..Len(appended) : ~EndsInPdfAnyCase(appended[i])
  /\ \A i \in 1..Len(urls_to_visit) :
       EndsInPdfAnyCase(urls_to_visit[i]) => urls_to_visit[i] = start_url

\* a PDF link outside the start URL's prefix and an upper-case .PDF link
\* inside it have both been download-attempted
C18_Witness ==
  /\ start_url = U_Section
  /\ Count(download_attempts, U_Section \o H_scan) >= 1
  /\ \E u \in DOMAIN download_attempts :
       /\ ~StartsWith(urldefrag(u), start_url)
       /\ EndsInPdfAnyCase(u)

U_SectionReport == U_Section \o H_report

U_DocsReport ==
  <<"h","t","t","p","s",":","/","/","s","i","t","e",".","e","x","a","m","p","l","e">>
    \o H_docs_report

\* C19: /section/report.pdf and /docs/report.pdf are both written to the file
\* report.pdf: the step in which the download of either succeeds leaves that
\* file holding its content and adds the URL to the downloaded set; the folder
\* changes in no other step than a write, and when both are in the downloaded
\* set the folder holds one file for the two, complete, from one of them, so
\* that it holds fewer files of downloaded URLs than the set has URLs.
C19_SameNameOverwrites ==
  /\ [][(pc = "pdf_write" /\ file_writes' # file_writes
           /\ absolute_url \in {U_SectionReport, U_DocsReport}) =>
          /\ H_report \in DOMAIN files'
          /\ files'[H_report] = [url |-> absolute_url, complete |-> TRUE]
          /\ DOMAIN files' = DOMAIN files \cup {H_report}
          /\ downloaded_pdf_urls' = downloaded_pdf_urls \cup {absolute_url}]_vars
  /\ [][files' # files => pc = "pdf_write"]_vars
  /\ []({U_SectionReport, U_DocsReport} \subseteq downloaded_pdf_urls =>
          /\ {n \in DOMAIN files :
                files[n].url \in {U_SectionReport, U_DocsReport}} = {H_report}
          /\ files[H_report].complete
          /\ Cardinality({n \in DOMAIN files :
                            files[n].url \in downloaded_pdf_urls})
               < Cardinality(downloaded_pdf_urls))

\* both report.pdf URLs are downloaded, /docs/report.pdf after
\* /section/report.pdf, and the one file holds the later one
C19_Witness ==
  /\ downloaded_pdf_urls = {U_SectionReport, U_DocsReport}
  /\ DOMAIN files = {H_report}
  /\ files[H_report] = [url |-> U_DocsReport, complete |-> TRUE]
  /\ pc = "links"
  /\ absolute_url = U_DocsReport
  /\ Count(file_writes, U_SectionReport) = 1
  /\ Count(file_writes, U_DocsReport) = 1

\* C20: when the crawl has finished, every URL an anchor resolved to that is
\* no PDF and whose fragment-stripped form begins with the start URL has that
\* form in visited_urls, and every URL put in the frontier was dequeued.
C20_InScopeLinksVisited ==
  pc = "done" =>
    /\ \A u \in DOMAIN links_found :
         (~EndsInPdfAnyCase(u) /\ StartsWith(urldefrag(u), start_url)) =>
            urldefrag(u) \in visited_urls
    /\ urls_to_visit = <<>>
    /\ \A i \in 1..Len(appended) : InList(dequeued, appended[i])
    /\ \A i \in 1..Len(dequeued) : urldefrag(dequeued[i]) \in visited_urls

\* the crawl has finished after two in-scope pages were found on the start
\* page and a third on one of them
C20_Witness ==
  /\ pc = "done"
  /\ Len(dequeued) = 4
  /\ Cardinality(visited_urls) = 4
  /\ \A i \in 2..4 : Count(links_found, dequeued[i]) = 1

====
